---- MODULE Spec2Model ----
(***************************************************************************)
(* Model of techlibs/greenpak4/synth_greenpak4.cc: the synth_greenpak4     *)
(* pass.  One behaviour is one call of SynthGreenPAK4Pass::execute, from   *)
(* the parsed options to log_pop() or to the error that ends it.  Every    *)
(* Pass::call is one step; the sequence of commands handed to Pass::call   *)
(* is recorded in ops, the labels of the blocks entered in stages.         *)
(***************************************************************************)
EXTENDS Integers, Sequences, FiniteSets, TLC

VARIABLES args, argidx, cfg, pc, active, stage, op_idx, ops, stages, failed

vars == <<args, argidx, cfg, pc, active, stage, op_idx, ops, stages, failed>>

(***************************************************************************)
(* The labels, in the order of the if-blocks of execute.                   *)
(***************************************************************************)
Labels == <<"begin", "flatten", "coarse", "fine", "map_luts", "map_cells", "check", "json">>

NumLabels == Len(Labels)

LabelSet == {Labels[i] : i \in 1..NumLabels}

(***************************************************************************)
(* Option values tried.  The parts are the three the pass accepts and one  *)
(* it does not; the -run labels are the eight labels, the empty string and *)
(* one string that is no label.                                            *)
(***************************************************************************)
ValidParts == {"SLG46140V", "SLG46620V", "SLG46621V"}

Parts == ValidParts \cup {"SLG46400V"}

RunLabels == LabelSet \cup {"", "nolabel"}

JsonFiles == {"", "/tmp/out.json"}

TopOpts == {"-auto-top", "-top top"}

Configs ==
    [part : Parts, run_from : RunLabels, run_to : RunLabels,
     json_file : JsonFiles, top_opt : TopOpts,
     flatten : BOOLEAN, retime : BOOLEAN, full_selection : BOOLEAN]

(***************************************************************************)
(* Variants of check_label with one of its two tests lost or the two       *)
(* tests in the other order.                                               *)
(***************************************************************************)
check_label_no_from(act, run_from, run_to, label) ==
    IF label = run_to THEN FALSE ELSE act

check_label_no_to(act, run_from, run_to, label) ==
    IF label = run_from THEN TRUE ELSE act

check_label_to_first(act, run_from, run_to, label) ==
    LET a1 == IF label = run_to THEN FALSE ELSE act
    IN  IF label = run_from THEN TRUE ELSE a1

(***************************************************************************)
(* check_label: the value returned, which is also the value left in the    *)
(* reference parameter active.                                             *)
(***************************************************************************)
check_label(act, run_from, run_to, label) ==
    LET a1 == IF label = run_from THEN TRUE ELSE act
    IN  IF label = run_to THEN FALSE ELSE a1

(***************************************************************************)
(* A part test that accepts every name.                                    *)
(***************************************************************************)
part_ok_any(part) == TRUE

(***************************************************************************)
(* The part test of execute.                                               *)
(***************************************************************************)
part_ok(part) ==
    ~(part # "SLG46140V" /\ part # "SLG46620V" /\ part # "SLG46621V")

(***************************************************************************)
(* The nlutmap calls with the tuple of SLG46621V taken from the help text. *)
(***************************************************************************)
nlutmap_calls_as_help(part) ==
    (IF part = "SLG46140V" THEN <<"nlutmap -luts 0,6,8,2">> ELSE <<>>)
    \o (IF part = "SLG46620V" THEN <<"nlutmap -luts 2,8,16,2">> ELSE <<>>)
    \o (IF part = "SLG46621V" THEN <<"nlutmap -luts 0,8,16,2">> ELSE <<>>)

(***************************************************************************)
(* The nlutmap calls with the if of SLG46620V lost.                        *)
(***************************************************************************)
nlutmap_calls_no_620(part) ==
    (IF part = "SLG46140V" THEN <<"nlutmap -luts 0,6,8,2">> ELSE <<>>)
    \o (IF part = "SLG46621V" THEN <<"nlutmap -luts 2,8,16,2">> ELSE <<>>)

(***************************************************************************)
(* The nlutmap calls of the map_luts block, one if per part.               *)
(***************************************************************************)
nlutmap_calls(part) ==
    (IF part = "SLG46140V" THEN <<"nlutmap -luts 0,6,8,2">> ELSE <<>>)
    \o (IF part = "SLG46620V" THEN <<"nlutmap -luts 2,8,16,2">> ELSE <<>>)
    \o (IF part = "SLG46621V" THEN <<"nlutmap -luts 2,8,16,2">> ELSE <<>>)

(***************************************************************************)
(* The nlutmap lines of the help text.                                     *)
(***************************************************************************)
help_nlutmap(part) ==
    CASE part = "SLG46140V" -> "nlutmap -luts 0,6,8,2"
      [] part = "SLG46620V" -> "nlutmap -luts 0,8,16,2"
      [] part = "SLG46621V" -> "nlutmap -luts 0,8,16,2"
      [] OTHER -> ""

(***************************************************************************)
(* The abc call made whatever the retime flag is.                          *)
(***************************************************************************)
retime_call_always(c) == <<"abc -dff">>

(***************************************************************************)
(* The abc call that ends the fine block, made only with -retime.          *)
(***************************************************************************)
retime_call(c) == IF c.retime THEN <<"abc -dff">> ELSE <<>>

(***************************************************************************)
(* The commands of each block, in the order of the Pass::call statements.  *)
(***************************************************************************)
body(label, c) ==
    CASE label = "begin" ->
           <<"read_verilog -lib +/greenpak4/cells_sim.v",
             "hierarchy -check " \o c.top_opt>>
      [] label = "flatten" ->
           <<"proc", "flatten", "tribuf -logic">>
      [] label = "coarse" ->
           <<"synth -run coarse">>
      [] label = "fine" ->
           <<"greenpak4_counters",
             "clean",
             "opt -fast -mux_undef -undriven -fine",
             "memory_map",
             "opt -undriven -fine",
             "techmap",
             "dfflibmap -prepare -liberty +/greenpak4/gp_dff.lib",
             "opt -fast">>
           \o retime_call(c)
      [] label = "map_luts" ->
           nlutmap_calls(c.part) \o <<"clean">>
      [] label = "map_cells" ->
           <<"dfflibmap -liberty +/greenpak4/gp_dff.lib",
             "techmap -map +/greenpak4/cells_map.v",
             "dffinit -ff GP_DFF Q INIT",
             "dffinit -ff GP_DFFR Q INIT",
             "dffinit -ff GP_DFFS Q INIT",
             "dffinit -ff GP_DFFSR Q INIT",
             "clean">>
      [] label = "check" ->
           <<"hierarchy -check", "stat", "check -noinit">>
      [] label = "json" ->
           <<"splitnets">>
           \o (IF c.json_file # "" THEN <<"write_json " \o c.json_file>> ELSE <<>>)

(***************************************************************************)
(* The condition of the flatten block without the test of the flag.        *)
(***************************************************************************)
calls_check_label_always(label, c) == TRUE

(***************************************************************************)
(* Whether the condition of a block calls check_label: the flatten block   *)
(* tests the flatten flag first and && does not evaluate its right side    *)
(* when the flag is false.                                                 *)
(***************************************************************************)
calls_check_label(label, c) ==
    IF label = "flatten" THEN c.flatten ELSE TRUE

(***************************************************************************)
(* Variants of the initial value of active: the test inverted, and the     *)
(* window closed whatever run_from is.                                     *)
(***************************************************************************)
initial_active_inverted(c) == c.run_from # ""

initial_active_false(c) == FALSE

(***************************************************************************)
(* Variants of the initial value of active: the window open whatever       *)
(* run_from is, and open for every run_from that is no label.              *)
(***************************************************************************)
initial_active_true(c) == TRUE

initial_active_unless_label(c) ==
    c.run_from \notin {"begin", "flatten", "coarse", "fine", "map_luts", "map_cells", "check", "json"}

(***************************************************************************)
(* The value of active before the first block.                             *)
(***************************************************************************)
initial_active(c) == c.run_from = ""

(***************************************************************************)
(* execute as a function of the options, when every Pass::call returns:    *)
(* the labels of the blocks entered from block i on, active having the     *)
(* value act before the condition of block i.                              *)
(***************************************************************************)
RECURSIVE execute_from(_, _, _)
execute_from(c, i, act) ==
    IF i > NumLabels THEN <<>>
    ELSE IF ~calls_check_label(Labels[i], c) THEN execute_from(c, i + 1, act)
    ELSE LET a == check_label(act, c.run_from, c.run_to, Labels[i])
         IN  (IF a THEN <<Labels[i]>> ELSE <<>>) \o execute_from(c, i + 1, a)

execute_stages(c) ==
    IF c.full_selection /\ part_ok(c.part)
    THEN execute_from(c, 1, initial_active(c))
    ELSE <<>>

(***************************************************************************)
(* The commands of a sequence of blocks, one block after the other.        *)
(***************************************************************************)
RECURSIVE bodies(_, _)
bodies(ls, c) ==
    IF ls = <<>> THEN <<>> ELSE body(Head(ls), c) \o bodies(Tail(ls), c)

execute_ops(c) == bodies(execute_stages(c), c)

(***************************************************************************)
(* The state after the option loop and extra_args, for every combination   *)
(* of option values; the arguments are not looked at again.                *)
(***************************************************************************)
Init ==
    /\ args = <<>>
    /\ argidx = 0
    /\ cfg \in Configs
    /\ pc = "start"
    /\ active = FALSE
    /\ stage = 0
    /\ op_idx = 0
    /\ ops = <<>>
    /\ stages = <<>>
    /\ failed = ""

(***************************************************************************)
(* log_cmd_error for a design that is not fully selected.                  *)
(***************************************************************************)
SelectionError ==
    /\ pc = "start"
    /\ ~cfg.full_selection
    /\ pc' = "error"
    /\ failed' = "This comannd only operates on fully selected designs!"
    /\ UNCHANGED <<args, argidx, cfg, active, stage, op_idx, ops, stages>>

(***************************************************************************)
(* log_cmd_error for a part that is none of the three.                     *)
(***************************************************************************)
PartError ==
    /\ pc = "start"
    /\ cfg.full_selection
    /\ ~part_ok(cfg.part)
    /\ pc' = "error"
    /\ failed' = "Invalid part name: '" \o cfg.part \o "'"
    /\ UNCHANGED <<args, argidx, cfg, active, stage, op_idx, ops, stages>>

(***************************************************************************)
(* Both tests pass: active is initialised, the first block is next.        *)
(***************************************************************************)
Start ==
    /\ pc = "start"
    /\ cfg.full_selection
    /\ part_ok(cfg.part)
    /\ active' = initial_active(cfg)
    /\ stage' = 1
    /\ pc' = "label"
    /\ UNCHANGED <<args, argidx, cfg, op_idx, ops, stages, failed>>

(***************************************************************************)
(* The flatten block with flatten false: check_label is not called.        *)
(***************************************************************************)
NoFlatten ==
    /\ pc = "label"
    /\ stage <= NumLabels
    /\ ~calls_check_label(Labels[stage], cfg)
    /\ stage' = stage + 1
    /\ UNCHANGED <<args, argidx, cfg, pc, active, op_idx, ops, stages, failed>>

(***************************************************************************)
(* The condition of a block is true: the block is entered.                 *)
(***************************************************************************)
EnterBlock ==
    /\ pc = "label"
    /\ stage <= NumLabels
    /\ calls_check_label(Labels[stage], cfg)
    /\ active' = check_label(active, cfg.run_from, cfg.run_to, Labels[stage])
    /\ active'
    /\ stages' = Append(stages, Labels[stage])
    /\ op_idx' = 1
    /\ pc' = "body"
    /\ UNCHANGED <<args, argidx, cfg, stage, ops, failed>>

(***************************************************************************)
(* The condition of a block is false: the block is passed over.            *)
(***************************************************************************)
SkipBlock ==
    /\ pc = "label"
    /\ stage <= NumLabels
    /\ calls_check_label(Labels[stage], cfg)
    /\ active' = check_label(active, cfg.run_from, cfg.run_to, Labels[stage])
    /\ ~active'
    /\ stage' = stage + 1
    /\ UNCHANGED <<args, argidx, cfg, pc, op_idx, ops, stages, failed>>

(***************************************************************************)
(* A statement of the block passed over after a call that returned.        *)
(***************************************************************************)
next_op_skip(i) == i + 2

(***************************************************************************)
(* The position after a Pass::call that returned: the next statement of    *)
(* the block.                                                              *)
(***************************************************************************)
next_op(i) == i + 1

(***************************************************************************)
(* One Pass::call that returns.                                            *)
(***************************************************************************)
CallOk ==
    /\ pc = "body"
    /\ op_idx <= Len(body(Labels[stage], cfg))
    /\ ops' = Append(ops, body(Labels[stage], cfg)[op_idx])
    /\ op_idx' = next_op(op_idx)
    /\ UNCHANGED <<args, argidx, cfg, pc, active, stage, stages, failed>>

(***************************************************************************)
(* One Pass::call that fails: the error leaves execute, which has no       *)
(* handler around any call.                                                *)
(***************************************************************************)
CallFail ==
    /\ pc = "body"
    /\ op_idx <= Len(body(Labels[stage], cfg))
    /\ ops' = Append(ops, body(Labels[stage], cfg)[op_idx])
    /\ failed' = body(Labels[stage], cfg)[op_idx]
    /\ pc' = "aborted"
    /\ UNCHANGED <<args, argidx, cfg, active, stage, op_idx, stages>>

(***************************************************************************)
(* The closing brace of a block.                                           *)
(***************************************************************************)
LeaveBlock ==
    /\ pc = "body"
    /\ op_idx > Len(body(Labels[stage], cfg))
    /\ stage' = stage + 1
    /\ op_idx' = 0
    /\ pc' = "label"
    /\ UNCHANGED <<args, argidx, cfg, active, ops, stages, failed>>

(***************************************************************************)
(* log_pop() and the return of execute.                                    *)
(***************************************************************************)
Finish ==
    /\ pc = "label"
    /\ stage > NumLabels
    /\ pc' = "done"
    /\ UNCHANGED <<args, argidx, cfg, active, stage, op_idx, ops, stages, failed>>

Next ==
    \/ SelectionError
    \/ PartError
    \/ Start
    \/ NoFlatten
    \/ EnterBlock
    \/ SkipBlock
    \/ CallOk
    \/ CallFail
    \/ LeaveBlock
    \/ Finish

Spec == Init /\ [][Next]_vars

TypeOK ==
    /\ cfg \in Configs
    /\ pc \in {"start", "label", "body", "done", "error", "aborted"}
    /\ active \in BOOLEAN
    /\ stage \in 0..(NumLabels + 1)
    /\ op_idx \in 0..10
    /\ Len(ops) <= 40
    /\ Len(stages) <= NumLabels

(***************************************************************************)
(* The option loop.  An argument is the sequence of its pieces, a colon    *)
(* being a piece of its own, so that find(':') and substr act on it as     *)
(* they do on the string; args[1] is the name of the command and the loop  *)
(* starts at the argument after it.                                        *)
(***************************************************************************)
MaxArgs == 3

ArgWords ==
    { <<"-top">>, <<"-json">>, <<"-part">>, <<"-run">>, <<"-noflatten">>, <<"-retime">>,
      <<"foo">>, <<"SLG46140V">>, <<"/tmp/out.json">>,
      <<"fine", ":", "check">>, <<":", "map_cells">> }

ArgLists ==
    { <<<<"synth_greenpak4">>>> \o a : a \in UNION {[1..n -> ArgWords] : n \in 0..MaxArgs} }

(***************************************************************************)
(* The string of a sequence of pieces.                                     *)
(***************************************************************************)
RECURSIVE str(_)
str(a) == IF a = <<>> THEN "" ELSE Head(a) \o str(Tail(a))

npos == 0

(***************************************************************************)
(* A find that gives the length of the string when there is no colon.      *)
(***************************************************************************)
find_colon_or_size(a) ==
    IF \E i \in 1..Len(a) : a[i] = ":"
    THEN CHOOSE i \in 1..Len(a) : a[i] = ":" /\ \A j \in 1..(i - 1) : a[j] # ":"
    ELSE Len(a) + 1

(***************************************************************************)
(* find(':'): the place of the first colon, npos when there is none.       *)
(***************************************************************************)
find_colon(a) ==
    IF \E i \in 1..Len(a) : a[i] = ":"
    THEN CHOOSE i \in 1..Len(a) : a[i] = ":" /\ \A j \in 1..(i - 1) : a[j] # ":"
    ELSE npos

(***************************************************************************)
(* substr(0, pos) and substr(pos+1).                                       *)
(***************************************************************************)
substr_before(a, pos) == str(SubSeq(a, 1, pos - 1))

substr_after(a, pos) == str(SubSeq(a, pos + 1, Len(a)))

(***************************************************************************)
(* The values of the options before the loop.                              *)
(***************************************************************************)
default_options(fs) ==
    [part |-> "SLG46621V", run_from |-> "", run_to |-> "",
     json_file |-> "", top_opt |-> "-auto-top",
     flatten |-> TRUE, retime |-> FALSE, full_selection |-> fs]

InitArgs ==
    /\ args \in ArgLists
    /\ argidx = 2
    /\ \E fs \in BOOLEAN : cfg = default_options(fs)
    /\ pc = "parse"
    /\ active = FALSE
    /\ stage = 0
    /\ op_idx = 0
    /\ ops = <<>>
    /\ stages = <<>>
    /\ failed = ""

has_value(opt) ==
    /\ pc = "parse"
    /\ argidx <= Len(args)
    /\ args[argidx] = <<opt>>
    /\ argidx + 1 <= Len(args)

ParseTop ==
    /\ has_value("-top")
    /\ cfg' = [cfg EXCEPT !.top_opt = "-top " \o str(args[argidx + 1])]
    /\ argidx' = argidx + 2
    /\ UNCHANGED <<args, pc, active, stage, op_idx, ops, stages, failed>>

ParseJson ==
    /\ has_value("-json")
    /\ cfg' = [cfg EXCEPT !.json_file = str(args[argidx + 1])]
    /\ argidx' = argidx + 2
    /\ UNCHANGED <<args, pc, active, stage, op_idx, ops, stages, failed>>

ParsePart ==
    /\ has_value("-part")
    /\ cfg' = [cfg EXCEPT !.part = str(args[argidx + 1])]
    /\ argidx' = argidx + 2
    /\ UNCHANGED <<args, pc, active, stage, op_idx, ops, stages, failed>>

(***************************************************************************)
(* -run with a colon in its value.                                         *)
(***************************************************************************)
ParseRun ==
    /\ has_value("-run")
    /\ LET pos == find_colon(args[argidx + 1])
       IN  /\ pos # npos
           /\ cfg' = [cfg EXCEPT !.run_from = substr_before(args[argidx + 1], pos),
                                 !.run_to = substr_after(args[argidx + 1], pos)]
    /\ argidx' = argidx + 2
    /\ UNCHANGED <<args, pc, active, stage, op_idx, ops, stages, failed>>

(***************************************************************************)
(* -run with no colon in its value: the break inside the -run branch.      *)
(***************************************************************************)
ParseRunBreak ==
    /\ has_value("-run")
    /\ find_colon(args[argidx + 1]) = npos
    /\ pc' = "extra_args"
    /\ UNCHANGED <<args, argidx, cfg, active, stage, op_idx, ops, stages, failed>>

ParseNoFlatten ==
    /\ pc = "parse"
    /\ argidx <= Len(args)
    /\ args[argidx] = <<"-noflatten">>
    /\ cfg' = [cfg EXCEPT !.flatten = FALSE]
    /\ argidx' = argidx + 1
    /\ UNCHANGED <<args, pc, active, stage, op_idx, ops, stages, failed>>

ParseRetime ==
    /\ pc = "parse"
    /\ argidx <= Len(args)
    /\ args[argidx] = <<"-retime">>
    /\ cfg' = [cfg EXCEPT !.retime = TRUE]
    /\ argidx' = argidx + 1
    /\ UNCHANGED <<args, pc, active, stage, op_idx, ops, stages, failed>>

(***************************************************************************)
(* No branch of the loop takes the argument: the break that ends the body. *)
(***************************************************************************)
ParseBreak ==
    /\ pc = "parse"
    /\ argidx <= Len(args)
    /\ ~(args[argidx] \in {<<"-top">>, <<"-json">>, <<"-part">>, <<"-run">>}
         /\ argidx + 1 <= Len(args))
    /\ args[argidx] \notin {<<"-noflatten">>, <<"-retime">>}
    /\ pc' = "extra_args"
    /\ UNCHANGED <<args, argidx, cfg, active, stage, op_idx, ops, stages, failed>>

(***************************************************************************)
(* The loop condition is false: every argument was taken.                  *)
(***************************************************************************)
ParseEnd ==
    /\ pc = "parse"
    /\ argidx > Len(args)
    /\ pc' = "extra_args"
    /\ UNCHANGED <<args, argidx, cfg, active, stage, op_idx, ops, stages, failed>>

(***************************************************************************)
(* extra_args with no argument left.                                       *)
(***************************************************************************)
ExtraArgsNone ==
    /\ pc = "extra_args"
    /\ argidx > Len(args)
    /\ pc' = "start"
    /\ UNCHANGED <<args, argidx, cfg, active, stage, op_idx, ops, stages, failed>>

(***************************************************************************)
(* extra_args with an option left: the usage error.                        *)
(***************************************************************************)
ExtraArgsOption ==
    /\ pc = "extra_args"
    /\ argidx <= Len(args)
    /\ args[argidx][1] \in {"-top", "-json", "-part", "-run", "-noflatten", "-retime"}
    /\ pc' = "error"
    /\ failed' = "Unknown option or option in arguments."
    /\ UNCHANGED <<args, argidx, cfg, active, stage, op_idx, ops, stages>>

(***************************************************************************)
(* extra_args with something else left: it is taken as a selection, after  *)
(* which the design is fully selected or not.                              *)
(***************************************************************************)
ExtraArgsSelect ==
    /\ pc = "extra_args"
    /\ argidx <= Len(args)
    /\ args[argidx][1] \notin {"-top", "-json", "-part", "-run", "-noflatten", "-retime"}
    /\ \E fs \in BOOLEAN : cfg' = [cfg EXCEPT !.full_selection = fs]
    /\ pc' = "start"
    /\ UNCHANGED <<args, argidx, active, stage, op_idx, ops, stages, failed>>

NextArgs ==
    \/ ParseTop
    \/ ParseJson
    \/ ParsePart
    \/ ParseRun
    \/ ParseRunBreak
    \/ ParseNoFlatten
    \/ ParseRetime
    \/ ParseBreak
    \/ ParseEnd
    \/ ExtraArgsNone
    \/ ExtraArgsOption
    \/ ExtraArgsSelect
    \/ Next

SpecArgs == InitArgs /\ [][NextArgs]_vars

(***************************************************************************)
(* Helpers of the properties.                                              *)
(***************************************************************************)
LabelIdx(l) == CHOOSE i \in 1..NumLabels : Labels[i] = l

FromIdx(c) == IF c.run_from = "" THEN 1 ELSE LabelIdx(c.run_from)

ToIdx(c) == IF c.run_to = "" THEN NumLabels + 1 ELSE LabelIdx(c.run_to)

Without(seq, x) == SelectSeq(seq, LAMBDA e : e # x)

Range(seq) == {seq[i] : i \in 1..Len(seq)}

IsPrefix(p, q) == Len(p) <= Len(q) /\ p = SubSeq(q, 1, Len(p))

EmptyRange == cfg.run_from = "" /\ cfg.run_to = ""

(***************************************************************************)
(* C1, as stated: a run with a valid part, an empty run range and no       *)
(* failing call enters every block once, in the order begin, flatten,      *)
(* coarse, fine, map_luts, map_cells, check, json.                         *)
(***************************************************************************)
C1_AllStagesInOrder ==
    (pc = "done" /\ EmptyRange) => stages = Labels

(***************************************************************************)
(* C1, amended: such a run enters every block once and in that order when  *)
(* flatten is enabled; with -noflatten it enters every block but flatten,  *)
(* once and in that order.  The commands called are those of the blocks    *)
(* entered, block after block.                                             *)
(***************************************************************************)
C1_EnabledStagesInOrder ==
    (pc = "done" /\ EmptyRange) =>
        /\ stages = (IF cfg.flatten THEN Labels ELSE Without(Labels, "flatten"))
        /\ ops = bodies(stages, cfg)

C1_Witness ==
    /\ pc = "done"
    /\ EmptyRange
    /\ cfg.flatten
    /\ stages = Labels
    /\ Len(ops) = 27

(***************************************************************************)
(* C2: with flatten enabled, run_from empty or a label and run_to empty or *)
(* a label later than run_from, a completed run enters exactly the blocks  *)
(* from run_from (begin when empty) up to, not including, run_to (through  *)
(* json when empty).                                                       *)
(***************************************************************************)
C2_WindowIsFromUpToTo ==
    (/\ pc = "done"
     /\ cfg.flatten
     /\ cfg.run_from \in LabelSet \cup {""}
     /\ cfg.run_to \in LabelSet \cup {""}
     /\ ToIdx(cfg) > FromIdx(cfg))
    => stages = SubSeq(Labels, FromIdx(cfg), ToIdx(cfg) - 1)

C2_Witness ==
    /\ pc = "done"
    /\ cfg.flatten
    /\ cfg.run_from = "fine"
    /\ cfg.run_to = ""
    /\ stages = <<"fine", "map_luts", "map_cells", "check", "json">>

Scenario140 ==
    /\ cfg.part = "SLG46140V"
    /\ cfg.run_from = "map_luts"
    /\ cfg.run_to = "check"

(***************************************************************************)
(* C3, as stated: for part SLG46140V and -run map_luts:check only the      *)
(* map_luts block is entered, and no command of another block is called.   *)
(***************************************************************************)
C3_OnlyMapLuts ==
    Scenario140 =>
        /\ Range(stages) \subseteq {"map_luts"}
        /\ Range(ops) \subseteq Range(body("map_luts", cfg))
        /\ pc = "done" => stages = <<"map_luts">>

(***************************************************************************)
(* C3, amended: for part SLG46140V and -run map_luts:check the blocks      *)
(* entered are map_luts and map_cells and no other; nlutmap is called with *)
(* -luts 0,6,8,2; the check block is not entered.                          *)
(***************************************************************************)
C3_MapLutsAndMapCells ==
    Scenario140 =>
        /\ IsPrefix(stages, <<"map_luts", "map_cells">>)
        /\ IsPrefix(ops, <<"nlutmap -luts 0,6,8,2", "clean">> \o body("map_cells", cfg))
        /\ "check" \notin Range(stages)
        /\ pc = "done" =>
              /\ stages = <<"map_luts", "map_cells">>
              /\ ops = <<"nlutmap -luts 0,6,8,2", "clean">> \o body("map_cells", cfg)

C3_Witness ==
    /\ Scenario140
    /\ pc = "done"
    /\ stages = <<"map_luts", "map_cells">>
    /\ ops[1] = "nlutmap -luts 0,6,8,2"

(***************************************************************************)
(* C4: for every run range and part, the blocks entered with -noflatten    *)
(* are the blocks entered with flatten enabled, less the flatten block.    *)
(***************************************************************************)
C4_NoFlattenKeepsLabelAddressing ==
    (pc = "done" /\ ~cfg.flatten) =>
        stages = Without(execute_stages([cfg EXCEPT !.flatten = TRUE]), "flatten")

(***************************************************************************)
(* C5: when run_from and run_to are the same label, no block is entered    *)
(* and no command is called.                                               *)
(***************************************************************************)
C5_EqualLabelsRunNothing ==
    (cfg.run_from \in LabelSet /\ cfg.run_from = cfg.run_to) =>
        /\ stages = <<>>
        /\ ops = <<>>
        /\ pc \notin {"body", "aborted"}

C5_Witness ==
    /\ pc = "done"
    /\ cfg.run_from = "fine"
    /\ cfg.run_to = "fine"
    /\ cfg.full_selection
    /\ part_ok(cfg.part)
    /\ ops = <<>>

(***************************************************************************)
(* C6: an empty run_from is a synonym of "begin": for every run_to, part   *)
(* and flags, the commands called with run_from empty are those called     *)
(* with run_from = "begin"; and with run_to empty the window, once open,   *)
(* stays open through the json block.                                      *)
(***************************************************************************)
C6_EmptyFromIsBegin ==
    /\ cfg.run_from = "" =>
          /\ IsPrefix(ops, execute_ops([cfg EXCEPT !.run_from = "begin"]))
          /\ pc = "done" => ops = execute_ops([cfg EXCEPT !.run_from = "begin"])
    /\ (cfg.run_to = "" /\ stages # <<>>) =>
          /\ active
          /\ pc = "done" => stages[Len(stages)] = "json"

C6_Witness ==
    /\ pc = "done"
    /\ cfg.run_from = ""
    /\ cfg.run_to = ""
    /\ ops # <<>>
    /\ ops = execute_ops([cfg EXCEPT !.run_from = "begin"])
    /\ stages[Len(stages)] = "json"

(***************************************************************************)
(* C7: when the part is none of SLG46140V, SLG46620V, SLG46621V, or the    *)
(* design is not fully selected, the run ends in an error before any block *)
(* is entered and with no command called, whatever the run range and the   *)
(* flags.                                                                  *)
(***************************************************************************)
C7_ConfigErrorBeforePipeline ==
    (cfg.part \notin ValidParts \/ ~cfg.full_selection) =>
        /\ pc \in {"start", "error"}
        /\ ops = <<>>
        /\ stages = <<>>

C7_Witness ==
    /\ pc = "error"
    /\ cfg.part \notin ValidParts
    /\ cfg.full_selection
    /\ cfg.run_from = ""
    /\ ops = <<>>

(***************************************************************************)
(* C8: when the k-th command called fails, it is the last command called   *)
(* in the run (nothing of the same block or of a later one, no second call *)
(* of the failed command), and the k commands called are the first k of    *)
(* the run with the same options in which no call fails.                   *)
(***************************************************************************)
C8_FailureAborts ==
    /\ [](pc = "aborted" =>
            /\ ops # <<>>
            /\ failed = ops[Len(ops)]
            /\ IsPrefix(ops, execute_ops(cfg)))
    /\ [][pc = "aborted" => (pc' = "aborted" /\ ops' = ops /\ stages' = stages)]_vars

C8_Witness ==
    /\ pc = "aborted"
    /\ Len(ops) = 5
    /\ failed = "tribuf -logic"
    /\ stages = <<"begin", "flatten">>

(***************************************************************************)
(* C9: for every valid part, the nlutmap command called by the map_luts    *)
(* block is the one the help text gives for that part.                     *)
(***************************************************************************)
C9_NlutmapAsDocumented ==
    (pc = "body" /\ Labels[stage] = "map_luts" /\ op_idx = 2) =>
        ops[Len(ops)] = help_nlutmap(cfg.part)

(***************************************************************************)
(* C10: for part SLG46621V, an empty run range, flatten on, retime off and *)
(* a JSON path, the eight blocks are entered in order, nlutmap is called   *)
(* with -luts 2,8,16,2 and write_json to that path is the last command.    *)
(* In every run write_json is called only after splitnets and nothing is   *)
(* called after it; a completed run calls it exactly when the json block   *)
(* was entered and a path was given.                                       *)
(***************************************************************************)
write_json_cmd == "write_json " \o cfg.json_file

EnabledLabels(c) == IF c.flatten THEN Labels ELSE Without(Labels, "flatten")

(***************************************************************************)
(* C11: for every run range the blocks entered are one contiguous run of   *)
(* the fixed order (a flatten block disabled by -noflatten counting as     *)
(* absent): no block that is enabled and not entered lies between two      *)
(* blocks entered.                                                         *)
(***************************************************************************)
C11_StagesContiguous ==
    \E i \in 1..(Len(EnabledLabels(cfg)) + 1) :
        IsPrefix(stages, SubSeq(EnabledLabels(cfg), i, Len(EnabledLabels(cfg))))

C11_Witness ==
    /\ pc = "done"
    /\ cfg.run_from = "fine"
    /\ cfg.run_to = "coarse"
    /\ stages = <<"fine", "map_luts", "map_cells", "check", "json">>

(***************************************************************************)
(* C12: a label that matches no block is no error.  With run_from not      *)
(* empty and no label, a run that passes the two tests calls no command    *)
(* and ends normally, for every run_to; with run_to not empty and no       *)
(* label, the run calls the commands of the run with run_to empty.         *)
(***************************************************************************)
C12_UnmatchedLabelIsNoOp ==
    /\ (cfg.run_from \notin LabelSet \cup {""}) =>
          /\ ops = <<>>
          /\ stages = <<>>
          /\ pc # "aborted"
          /\ (cfg.full_selection /\ cfg.part \in ValidParts) =>
                /\ pc # "error"
                /\ pc # "done" => ENABLED Next
    /\ (cfg.run_to \notin LabelSet \cup {""}) =>
          /\ IsPrefix(stages, execute_stages([cfg EXCEPT !.run_to = ""]))
          /\ IsPrefix(ops, execute_ops([cfg EXCEPT !.run_to = ""]))
          /\ pc = "done" =>
                /\ stages = execute_stages([cfg EXCEPT !.run_to = ""])
                /\ ops = execute_ops([cfg EXCEPT !.run_to = ""])

C12_Witness ==
    /\ pc = "done"
    /\ cfg.run_from = "nolabel"
    /\ cfg.run_to = "nolabel"
    /\ ops = <<>>

(***************************************************************************)
(* C13: with -noflatten the flatten block is never entered and none of     *)
(* proc, flatten, tribuf -logic is called, whatever the run range.         *)
(***************************************************************************)
C13_NoFlattenNeverFlattens ==
    ~cfg.flatten =>
        /\ "flatten" \notin Range(stages)
        /\ Range(ops) \cap {"proc", "flatten", "tribuf -logic"} = {}

C13_Witness ==
    /\ pc = "done"
    /\ ~cfg.flatten
    /\ cfg.run_from = "begin"
    /\ cfg.run_to = "fine"
    /\ stages = <<"begin", "coarse">>


Positions(cmds) == {i \in 1..Len(ops) : ops[i] \in cmds}

NlutmapCmds == {"nlutmap -luts 0,6,8,2", "nlutmap -luts 2,8,16,2", "nlutmap -luts 0,8,16,2"}

(***************************************************************************)
(* C14: abc -dff is called at most once in a run, only with -retime and    *)
(* the fine block entered, directly after opt -fast and before every       *)
(* command of map_luts (the command after it, if any, is nlutmap).  A run  *)
(* that has left the fine block has called it exactly once when -retime is *)
(* set, and never without -retime or without the fine block.               *)
(***************************************************************************)
C14_RetimeOnceAfterOptFast ==
    /\ Cardinality(Positions({"abc -dff"})) <= 1
    /\ \A i \in Positions({"abc -dff"}) :
          /\ cfg.retime
          /\ "fine" \in Range(stages)
          /\ i > 1
          /\ ops[i - 1] = "opt -fast"
          /\ \A j \in Positions(NlutmapCmds) : j > i
          /\ i < Len(ops) => ops[i + 1] \in NlutmapCmds
    /\ (~cfg.retime \/ "fine" \notin Range(stages)) => Positions({"abc -dff"}) = {}
    /\ (/\ cfg.retime
        /\ "fine" \in Range(stages)
        /\ \/ pc = "done"
           \/ stages[Len(stages)] # "fine")
       => Cardinality(Positions({"abc -dff"})) = 1

C14_Witness ==
    /\ pc = "done"
    /\ cfg.retime
    /\ stages = Labels
    /\ ops[15] = "abc -dff"
    /\ ops[14] = "opt -fast"
    /\ ops[16] \in NlutmapCmds

(***************************************************************************)
(* C16: a run that has gone through the map_luts block has called nlutmap  *)
(* exactly once, with the tuple of the configured part (0,6,8,2 exactly    *)
(* for SLG46140V), and clean directly after it; a run that has not entered *)
(* the block has called no nlutmap.                                        *)
(***************************************************************************)
C16_OneNlutmapPerMapLuts ==
    /\ Cardinality(Positions(NlutmapCmds)) <= 1
    /\ "map_luts" \notin Range(stages) => Positions(NlutmapCmds) = {}
    /\ \A i \in Positions(NlutmapCmds) :
          /\ (ops[i] = "nlutmap -luts 0,6,8,2") <=> (cfg.part = "SLG46140V")
          /\ i < Len(ops) => ops[i + 1] = "clean"
    /\ (/\ "map_luts" \in Range(stages)
        /\ \/ pc = "done"
           \/ stages[Len(stages)] # "map_luts")
       => \E i \in Positions(NlutmapCmds) : i < Len(ops) /\ ops[i + 1] = "clean"

C16_Witness ==
    /\ pc = "done"
    /\ cfg.part = "SLG46620V"
    /\ cfg.run_from = "map_luts"
    /\ cfg.run_to = "map_cells"
    /\ ops = <<"nlutmap -luts 2,8,16,2", "clean">>

(***************************************************************************)
(* C17: when run_from and run_to are labels and run_to comes before        *)
(* run_from in the fixed order, a completed run enters every enabled block *)
(* from run_from through json, as it does with run_to empty.               *)
(***************************************************************************)
C17_ReversedRangeIgnoresTo ==
    (/\ pc = "done"
     /\ cfg.run_from \in LabelSet
     /\ cfg.run_to \in LabelSet
     /\ ToIdx(cfg) < FromIdx(cfg))
    => /\ stages = SelectSeq(SubSeq(Labels, FromIdx(cfg), NumLabels),
                             LAMBDA l : l # "flatten" \/ cfg.flatten)
       /\ stages = execute_stages([cfg EXCEPT !.run_to = ""])


(***************************************************************************)
(* C15: a -run option whose value has no colon ends the option loop at     *)
(* that option, with no option changed by it (run_from and run_to empty    *)
(* when no -run came before); the option is left to extra_args, the run    *)
(* ends in an error and no command is called.                              *)
(***************************************************************************)
MalformedRunAt(i) ==
    /\ i + 1 <= Len(args)
    /\ args[i] = <<"-run">>
    /\ ":" \notin Range(args[i + 1])

C15_MalformedRunIsUsageError ==
    /\ [](( pc # "parse" /\ MalformedRunAt(argidx)) =>
            /\ pc \in {"extra_args", "error"}
            /\ ops = <<>>
            /\ stages = <<>>
            /\ (\A j \in 2..(argidx - 1) : args[j] # <<"-run">>) =>
                  (cfg.run_from = "" /\ cfg.run_to = ""))
    /\ [][(pc = "parse" /\ MalformedRunAt(argidx)) =>
            (pc' = "extra_args" /\ argidx' = argidx /\ cfg' = cfg)]_vars

C15_Witness ==
    /\ pc = "error"
    /\ args = << <<"synth_greenpak4">>, <<"-noflatten">>, <<"-run">>, <<"foo">> >>
    /\ argidx = 3
    /\ failed = "Unknown option or option in arguments."
    /\ cfg.run_from = ""
    /\ cfg.run_to = ""
    /\ ops = <<>>

====
